---------------------------- MODULE Spec2Model ----------------------------
(***************************************************************************)
(* Model of the IOTTIMER display driver (xdsp_21_iottimer.ino, the TM1640  *)
(* variant) and of the TM1640 transport (xdrv_91_tm1640.ino).              *)
(*                                                                         *)
(* Characters are their ASCII codes, C strings are sequences of codes      *)
(* (without the terminating NUL), the display buffer IOTTIMERDisplay and   *)
(* the chip's display memory are functions 0..15 -> 0..255.                *)
(***************************************************************************)
EXTENDS Integers, Sequences, FiniteSets, TLC

VARIABLES
  Display,            \* IOTTIMERDisplay[IOTTIMER_DIGITS]
  Device,             \* display memory of the TM1640 implied by the bytes sent so far
  ctrl,               \* last display-control byte sent by TM1640SetBrightness
  scroll_text,        \* IOTTIMERData.scroll_text (up to its first NUL)
  scroll_delay,       \* IOTTIMERData.scroll_delay
  scroll_index,       \* IOTTIMERData.scroll_index
  iteration,          \* IOTTIMERData.iteration
  scroll_counter,     \* IOTTIMERData.scroll_counter
  scroll_counter_max, \* IOTTIMERData.scroll_counter_max
  scroll,             \* IOTTIMERData.scroll
  show_clock,         \* IOTTIMERData.show_clock
  clock_24,           \* IOTTIMERData.clock_24
  clock_colon_state,  \* IOTTIMERData.clock_colon_state
  init_driver_done,   \* IOTTIMERData.init_driver_done
  disp_power,         \* disp_power of the display core
  last,               \* what the last operation was, its inputs and what it resolved
  cmds,               \* number of display commands dispatched so far
  clock_pin,          \* level of the GPIO Tm1640.clock_pin: 1 is HIGH, 0 is LOW
  data_pin,           \* level of the GPIO Tm1640.data_pin
  wire_todo,          \* the digitalWrite calls the transport operation in progress has left
  wire_rx             \* what the chip has seen on the bus since that operation began

vars == <<Display, Device, ctrl, scroll_text, scroll_delay, scroll_index, iteration,
          scroll_counter, scroll_counter_max, scroll, show_clock, clock_24,
          clock_colon_state, init_driver_done, disp_power, last, cmds,
          clock_pin, data_pin, wire_todo, wire_rx>>

\* the bus; every transport operation leaves it as it found it, both pins HIGH
wireVars == <<clock_pin, data_pin, wire_todo, wire_rx>>

scrollVars == <<scroll_text, scroll_delay, scroll_index, iteration,
                scroll_counter, scroll_counter_max, scroll>>
clockVars == <<show_clock, clock_24, clock_colon_state>>

-----------------------------------------------------------------------------
(* Program constants *)

CMD_MAX_LEN == 55
LEVEL_MIN == 0
LEVEL_MAX == 100
SCROLL_MAX_LEN == 50
IOTTIMER_DIGITS == 16
IOTTIMER_DOT_BIT == 2
\* Settings->display_width as set by IOTTIMERInitDriver
display_width == 9
TM1640_CMD_DATA_AUTO == 64
TM1640_CMD_DATA_FIXED == 68
TM1640_CMD_DISPLAY == 128
TM1640_CMD_ADDRESS == 192

Cells == 0 .. (IOTTIMER_DIGITS - 1)
Blank == [i \in Cells |-> 0]

\* character codes used by the driver
NUL == 0
SPC == 32
DOT == 46
ZERO == 48

-----------------------------------------------------------------------------
(* Integer arithmetic of the C types *)

Pow2(n) == 2 ^ n
U8(x) == x % 256
U16(x) == x % 65536

\* A 32-bit unsigned value v (uint32_t, size_t) is held as the integer it is
\* congruent to modulo 2^32 in -2^31 .. 2^31-1, so that sums and differences
\* of the small operands met here wrap as in C; a negative representative
\* stands for v >= 2^31. ULess is the unsigned a < b.
ULess(a, b) == IF (a >= 0) = (b >= 0) THEN a < b ELSE b < 0

Bit(x, i) == (x \div Pow2(i)) % 2

RECURSIVE OrBits(_, _, _)
OrBits(a, b, n) ==
  IF n = 0 THEN 0
  ELSE OrBits(a, b, n - 1)
       + (IF Bit(a, n - 1) = 1 \/ Bit(b, n - 1) = 1 THEN Pow2(n - 1) ELSE 0)

\* the low byte of a | b (the byte a uint8_t keeps of the int expression)
Or8(a, b) == OrBits(U8(a), U8(b), 8)

\* a % n of C (the quotient truncates towards zero, the sign follows a)
CRem(a, n) == IF a >= 0 THEN a % n ELSE 0 - ((0 - a) % n)

\* s[k] of a NUL-terminated C string, k counted from 0
At(s, k) == IF k < Len(s) THEN s[k + 1] ELSE NUL

-----------------------------------------------------------------------------
(* The font *)

IOTTIMERFont ==
  << 0, 0, 0, 0, 0, 0, 0, 0, 0, 0, 0, 0, 0, 0, 0, 0,
     0, 0, 0, 0, 0, 0, 0, 0, 0, 0, 0, 0, 0, 0, 0, 0,
     0, 160, 129, 0, 0, 0, 0, 1, 240, 89, 0, 0, 0, 64, 0, 0,
     249, 9, 115, 91, 139, 218, 250, 73, 251, 219, 0, 0, 0, 18, 0, 99,
     0, 235, 186, 240, 59, 242, 226, 250, 171, 9, 25, 0, 176, 0, 233, 249,
     227, 171, 34, 218, 178, 185, 0, 0, 0, 75, 0, 240, 0, 89, 195, 16,
     1, 123, 186, 50, 59, 243, 226, 219, 170, 8, 25, 0, 9, 0, 42, 58,
     227, 171, 34, 218, 178, 56, 0, 0, 0, 75, 0, 11, 9, 162, 0, 0 >>

\* IOTTIMERFont[c]: the table has 128 entries; an index of 128 or more reads
\* whatever follows the table, u being the byte found there.
FontAt(c, u) == IF c < 128 THEN IOTTIMERFont[c + 1] ELSE u

-----------------------------------------------------------------------------
(* The transport *)

\* TM1640SendDataArray(address, data, count): the chip stores the k-th byte
\* at address + k; data points at the start of the buffer buf.
SendDataArray(dev, address, buf, count) ==
  [a \in Cells |->
     IF a >= address /\ a - address < count THEN buf[a - address] ELSE dev[a]]

\* TM1640SetBrightness(level): the display-control byte it sends
SetBrightnessCmd(level) ==
  Or8(Or8(TM1640_CMD_DISPLAY, IF level > 0 THEN 8 ELSE 0), CRem(level - 1, 8))

\* TM1640SendData(address, data): the chip stores one byte at a fixed address
SendData(dev, address, data) ==
  [a \in Cells |-> IF a = address THEN data ELSE dev[a]]

-----------------------------------------------------------------------------
(* The two-wire bus: each transport function as the digitalWrite calls it makes *)

\* digitalWrite(pin, level): pin is "clock" or "data", level 1 (HIGH) or 0 (LOW)
Write(pin, level) == [pin |-> pin, level |-> level]

TM1640Start == <<Write("data", 0), Write("clock", 0)>>

TM1640Stop == <<Write("clock", 1), Write("data", 1)>>

\* the bits of data from the most significant one down
RECURSIVE SendBitsMsbFirst(_, _)
SendBitsMsbFirst(data, i) ==
  IF i < 8
  THEN <<Write("data", (data \div Pow2(7 - i)) % 2), Write("clock", 1), Write("clock", 0)>>
         \o SendBitsMsbFirst(data, i + 1)
  ELSE <<>>

\* a TM1640Send that shifts the byte out from its most significant bit
TM1640SendMsbFirst(data) == SendBitsMsbFirst(data, 0) \o <<Write("data", 0)>>

\* for (i = 0; i < 8; i++): data & 1 on the data pin, data >>= 1, a clock pulse
RECURSIVE SendBits(_, _)
SendBits(data, i) ==
  IF i < 8
  THEN <<Write("data", data % 2), Write("clock", 1), Write("clock", 0)>>
         \o SendBits(data \div 2, i + 1)
  ELSE <<>>

TM1640Send(data) == SendBits(data, 0) \o <<Write("data", 0)>>

TM1640SendData(address, data) ==
  TM1640Start \o TM1640Send(TM1640_CMD_DATA_FIXED) \o TM1640Stop
    \o TM1640Start \o TM1640Send(Or8(TM1640_CMD_ADDRESS, address)) \o TM1640Send(data)
    \o TM1640Stop

\* while (count-- > 0) TM1640Send(*data++), k being the bytes sent so far
RECURSIVE SendEach(_, _, _)
SendEach(data, k, count) ==
  IF count > 0
  THEN TM1640Send(At(data, k)) \o SendEach(data, k + 1, count - 1)
  ELSE <<>>

TM1640SendDataArray(address, data, count) ==
  TM1640Start \o TM1640Send(TM1640_CMD_DATA_AUTO) \o TM1640Stop
    \o TM1640Start \o TM1640Send(Or8(TM1640_CMD_ADDRESS, address))
    \o SendEach(data, 0, count) \o TM1640Stop

TM1640SetBrightness(level) ==
  TM1640Start \o TM1640Send(SetBrightnessCmd(level)) \o TM1640Stop

\* the chip's view of one digitalWrite. The data pin falling while the clock
\* is HIGH is a start condition, rising a stop condition. The clock rising
\* samples the data pin ("high?", "low?") and the clock falling completes the
\* pulse and shifts the sampled bit in ("high", "low"); a stop condition
\* discards a sample whose pulse was not completed.
Pending(rx) == rx # <<>> /\ rx[Len(rx)] \in {"high?", "low?"}

Settled(rx) == IF Pending(rx) THEN SubSeq(rx, 1, Len(rx) - 1) ELSE rx

Observe(rx, clock, data, w) ==
  IF w.pin = "data"
  THEN IF clock = 1 /\ w.level # data
       THEN IF w.level = 0 THEN Append(rx, "start") ELSE Append(Settled(rx), "stop")
       ELSE rx
  ELSE IF clock = 0 /\ w.level = 1
       THEN Append(rx, IF data = 1 THEN "high?" ELSE "low?")
       ELSE IF clock = 1 /\ w.level = 0 /\ Pending(rx)
       THEN Append(Settled(rx), IF rx[Len(rx)] = "high?" THEN "high" ELSE "low")
       ELSE rx

-----------------------------------------------------------------------------
(* IOTTIMERDisplayText *)

\* a pass that gives a point a cell of its own
TextCellOwnCell(text, k, u) ==
  IF At(text, k) # NUL
  THEN IF At(text, k) = DOT
       THEN <<Pow2(IOTTIMER_DOT_BIT), k + 1>>
       ELSE <<FontAt(At(text, k), u), k + 1>>
  ELSE <<0, k>>

\* One pass of the loop body for cell i with the text pointer at k:
\* <<cell value, new pointer>>
TextCell(text, k, u) ==
  IF At(text, k) # NUL
  THEN LET isDot == At(text, k) = DOT
           v0 == IF isDot THEN 0 ELSE FontAt(At(text, k), u)
           k1 == IF isDot THEN k ELSE k + 1
       IN IF At(text, k1) = DOT
          THEN <<OrBits(v0, Pow2(IOTTIMER_DOT_BIT), 8), k1 + 1>>
          ELSE <<v0, k1>>
  ELSE <<0, k>>

\* for (i = 0; i < IOTTIMER_DIGITS; i++): the buffer after the loop
\* (c ranges over a one-element set so that the pass is computed once)
RECURSIVE TextLoop(_, _, _, _, _)
TextLoop(text, i, k, buf, u) ==
  IF i = IOTTIMER_DIGITS THEN buf
  ELSE CHOOSE b \in { TextLoop(text, i + 1, c[2], [buf EXCEPT ![i] = c[1]], u) :
                        c \in {TextCell(text, k, u)} } : TRUE

\* the buffer IOTTIMERDisplayText(text) leaves (it assigns every cell)
DisplayTextBuf(text, u) ==
  CHOOSE b \in { TextLoop(t, 0, 0, Blank, u) : t \in {text} } : TRUE

\* the number of leading cells that took their value from the text: the
\* first cell at which the loop finds the text exhausted
RECURSIVE TextCells(_, _, _, _)
TextCells(text, i, k, u) ==
  IF i = IOTTIMER_DIGITS \/ At(text, k) = NUL THEN i
  ELSE CHOOSE n \in { TextCells(text, i + 1, c[2], u) : c \in {TextCell(text, k, u)} } : TRUE

-----------------------------------------------------------------------------
(* Outcome of a command: what it returns, the buffer and the device memory *)
(* it leaves, the position and length it resolved, the text it handed to   *)
(* IOTTIMERDisplayText, and the (address, count) of its last transport call *)

Outcome(ok, disp, dev, pos, len, text, send) ==
  [ok |-> ok, disp |-> disp, dev |-> dev, pos |-> pos, len |-> len,
   text |-> text, send |-> send]

NoSend == <<>>
FullSend == <<0, IOTTIMER_DIGITS>>

\* IOTTIMERDisplayText(text) as the last step of a successful command
ShowText(dev, pos, len, text, u) ==
  LET d == DisplayTextBuf(text, u)
  IN Outcome(TRUE, d, SendDataArray(dev, 0, d, IOTTIMER_DIGITS), pos, len, text, FullSend)

\* j spaces: for (j = 0; j < position; j++) text[j] = ' '
RECURSIVE Spaces(_, _, _)
Spaces(text, j, position) ==
  IF j < position
  THEN IF j >= display_width THEN text ELSE Spaces(Append(text, SPC), j + 1, position)
  ELSE text

-----------------------------------------------------------------------------
(* CmndIOTTIMERNumber *)

RECURSIVE Digits(_)
Digits(n) == IF n < 10 THEN <<ZERO + n>> ELSE Append(Digits(n \div 10), ZERO + (n % 10))

\* snprintf("%d", num): num is printed as the signed value it represents
DecStr(num) == IF num < 0 THEN <<45>> \o Digits(0 - num) ELSE Digits(num)

\* //write pads
RECURSIVE NumPads(_, _, _, _)
NumPads(text, i, bound, pad) ==
  IF ULess(i, bound)
  THEN IF i >= display_width THEN <<text, i>>
       ELSE NumPads(Append(text, pad), i + 1, bound, pad)
  ELSE <<text, i>>

\* //write digits
RECURSIVE NumDigits(_, _, _, _, _)
NumDigits(text, i, j, txt, bound) ==
  IF i < bound
  THEN IF i >= display_width THEN text
       ELSE IF At(txt, j) = NUL THEN text
       ELSE IF At(txt, j) = DOT THEN NumDigits(text, i, j + 1, txt, bound)
       ELSE NumDigits(Append(text, At(txt, j)), i + 1, j + 1, txt, bound)
  ELSE text

\* if ((position < 0) || (position > (Settings->display_width - 1))) position = 0;
NumberPosition(posArg) ==
  LET position == U8(posArg)
  IN IF position > display_width - 1 THEN 0 ELSE position

\* if (!length) length = strlen(txt); if (... (length > width)) length = width;
NumberLength(lenArg, txt) ==
  LET l0 == U8(lenArg)
      l1 == IF l0 = 0 THEN U8(Len(txt)) ELSE l0
  IN IF l1 > display_width THEN display_width ELSE l1

\* the bound of the pad loop, position + (length - strlen(txt)), in size_t
NumberPadBound(position, length, txt) == position + (length - Len(txt))

\* a number laid out with its digits first and the pads after them
NumberTextLeftAligned(num, position, leadingzeros, length) ==
  LET txt == DecStr(num)
      pad == IF leadingzeros THEN ZERO ELSE SPC
      t0 == Spaces(<<>>, 0, position)
      d == NumDigits(t0, position, 0, txt, position + length)
  IN NumPads(d, Len(d), position + length, pad)[1]

NumberText(num, position, leadingzeros, length) ==
  LET txt == DecStr(num)
      pad == IF leadingzeros THEN ZERO ELSE SPC
      t0 == Spaces(<<>>, 0, position)
      p == NumPads(t0, position, NumberPadBound(position, length, txt), pad)
  IN NumDigits(p[1], p[2], 0, txt, position + length)

CmndIOTTIMERNumber(dev, clear, num, posArg, lzArg, lenArg, u) ==
  LET position == NumberPosition(posArg)
      length == NumberLength(lenArg, DecStr(num))
      dev1 == IF clear THEN Blank ELSE dev
  IN ShowText(dev1, position, length,
              NumberText(num, position, U8(lzArg) # 0, length), u)

-----------------------------------------------------------------------------
(* CmndIOTTIMERText *)

TextPosition(posArg) ==
  LET position == U8(posArg)
  IN IF position > display_width - 1 THEN 0 ELSE position

TextLength(lenArg) ==
  LET l0 == U8(lenArg)
      l1 == IF l0 = 0 THEN display_width ELSE l0
  IN IF l1 > display_width THEN display_width ELSE l1

\* for (i = 0; i < (strLen + position); i++): <<text, i, s>> after the loop
RECURSIVE TextCopy(_, _, _, _, _, _, _)
TextCopy(text, i, s, dots, sString, position, length) ==
  IF i < U8(Len(sString)) + position
  THEN IF i >= length + dots + position \/ dots > 4 THEN <<text, i, s>>
       ELSE IF i < position
            THEN TextCopy(Append(text, SPC), i + 1, s, dots, sString, position, length)
            ELSE TextCopy(Append(text, At(sString, s)), i + 1, s + 1,
                          IF At(sString, s) = DOT /\ dots <= 4 THEN dots + 1 ELSE dots,
                          sString, position, length)
  ELSE <<text, i, s>>

TextText(sString, position, length) ==
  LET r == TextCopy(<<>>, 0, 0, 0, sString, position, length)
  IN IF r[2] < U8(Len(sString)) /\ At(sString, r[3]) = DOT
     THEN Append(r[1], DOT)
     ELSE r[1]

CmndIOTTIMERText(dev, clear, sString, posArg, lenArg, u) ==
  LET position == TextPosition(posArg)
      length == TextLength(lenArg)
      dev1 == IF clear THEN Blank ELSE dev
  IN ShowText(dev1, position, length, TextText(sString, position, length), u)

-----------------------------------------------------------------------------
(* CmndIOTTIMERFloat *)

RECURSIVE Pow10(_)
Pow10(n) == IF n = 0 THEN 1 ELSE 10 * Pow10(n - 1)

\* the digits of n, left-padded with '0' to w characters
RECURSIVE PadDigits(_, _)
PadDigits(n, w) ==
  IF w = 0 THEN <<>> ELSE Append(PadDigits(n \div 10, w - 1), ZERO + (n % 10))

\* ext_snprintf_P("%*_f", precision, &fnum): fnum given in thousandths,
\* rounded to precision decimals; no point is printed for precision 0
FloatStr(milli, precision) ==
  LET m == IF milli < 0 THEN 0 - milli ELSE milli
      scaled == (m + (Pow10(3 - precision) \div 2)) \div Pow10(3 - precision)
      body == IF precision = 0 THEN Digits(scaled)
              ELSE IF precision <= 3
              THEN Digits(scaled \div Pow10(precision))
                   \o <<DOT>> \o PadDigits(scaled % Pow10(precision), precision)
              ELSE Digits(m \div 1000)
                   \o <<DOT>> \o PadDigits(m % 1000, 3) \o [k \in 1 .. (precision - 3) |-> ZERO]
  IN IF milli < 0 THEN <<45>> \o body ELSE body

\* if ((position < 0) || (position > (Settings->display_width))) position = 0;
FloatPosition(posArg) ==
  LET position == U8(posArg)
  IN IF position > display_width THEN 0 ELSE position

FloatPrecision(precArg) ==
  LET precision == U8(precArg)
  IN IF precision >= display_width THEN display_width - 1 ELSE precision

FloatLength(lenArg, txt) ==
  LET l0 == U8(lenArg)
      l1 == IF l0 = 0 THEN U8(Len(txt)) ELSE l0
  IN IF l1 <= 0 \/ l1 > display_width THEN display_width ELSE l1

\* text[i] = c, i counted from 0 (i is at most the length of text)
Put(text, i, c) == IF i = Len(text) THEN Append(text, c) ELSE [text EXCEPT ![i + 1] = c]

\* a copy loop that takes a point on any index as it takes a digit
RECURSIVE FloatCopyAnyPoint(_, _, _, _, _, _, _)
FloatCopyAnyPoint(text, i, j, dots, txt, position, length) ==
  IF i < position + length + dots
  THEN LET c == At(txt, j)
           dots1 == IF c = DOT THEN dots + 1 ELSE dots
       IN IF i >= display_width + dots1 THEN <<TRUE, SubSeq(text, 1, i)>>
          ELSE IF c = NUL THEN <<TRUE, SubSeq(text, 1, i)>>
          ELSE FloatCopyAnyPoint(Put(text, i, c), i + 1, j + 1, dots1, txt, position, length)
  ELSE <<TRUE, SubSeq(text, 1, i)>>

\* a copy loop that moves a point found on index 3 one place to the left
RECURSIVE FloatCopyOneLeft(_, _, _, _, _, _, _)
FloatCopyOneLeft(text, i, j, dots, txt, position, length) ==
  IF i < position + length + dots
  THEN LET c == At(txt, j)
           dots1 == IF c = DOT THEN dots + 1 ELSE dots
       IN IF i >= display_width + dots1 THEN <<TRUE, SubSeq(text, 1, i)>>
          ELSE IF c = NUL THEN <<TRUE, SubSeq(text, 1, i)>>
          ELSE IF c = DOT /\ i = 3
               THEN FloatCopyOneLeft(Put(Put(text, i, text[i]), i - 1, c),
                                     i + 1, j + 1, dots1, txt, position, length)
          ELSE IF c = DOT /\ i # 2 THEN <<FALSE, text>>
          ELSE FloatCopyOneLeft(Put(text, i, c), i + 1, j + 1, dots1, txt, position, length)
  ELSE <<TRUE, SubSeq(text, 1, i)>>

\* for (j = 0; i < position + length + dots; i++, j++):
\* <<TRUE, text>> after the loop, <<FALSE, text>> on "Can't display this float"
RECURSIVE FloatCopy(_, _, _, _, _, _, _)
FloatCopy(text, i, j, dots, txt, position, length) ==
  IF i < position + length + dots
  THEN LET c == At(txt, j)
           dots1 == IF c = DOT THEN dots + 1 ELSE dots
       IN IF i >= display_width + dots1 THEN <<TRUE, SubSeq(text, 1, i)>>
          ELSE IF c = NUL THEN <<TRUE, SubSeq(text, 1, i)>>
          ELSE IF c = DOT /\ i = 3
               THEN FloatCopy(Put(Put(Put(text, i, text[i]), i - 1, text[i - 1]), i - 2, c),
                              i + 1, j + 1, dots1, txt, position, length)
          ELSE IF c = DOT /\ i # 2 THEN <<FALSE, text>>
          ELSE FloatCopy(Put(text, i, c), i + 1, j + 1, dots1, txt, position, length)
  ELSE <<TRUE, SubSeq(text, 1, i)>>

\* CmndIOTTIMERFloat from line 493 on, txt being what ext_snprintf_P wrote
FloatRender(disp, dev, clear, txt, position, lenArg, u) ==
  LET length == FloatLength(lenArg, txt)
      disp1 == IF clear THEN Blank ELSE disp
      dev1 == IF clear THEN Blank ELSE dev
      r == FloatCopy(Spaces(<<>>, 0, position), position, 0, 0, txt, position, length)
  IN IF r[1]
     THEN ShowText(dev1, position, length, r[2], u)
     ELSE Outcome(FALSE, disp1, dev1, position, length, r[2],
                  IF clear THEN FullSend ELSE NoSend)

\* a Float that shows the characters copied so far before it reports failure
CmndIOTTIMERFloatPartial(disp, dev, clear, milli, posArg, precArg, lenArg, u) ==
  LET position == FloatPosition(posArg)
      precision == FloatPrecision(precArg)
      txt == FloatStr(milli, precision)
      length == FloatLength(lenArg, txt)
      dev1 == IF clear THEN Blank ELSE dev
      r == FloatCopy(Spaces(<<>>, 0, position), position, 0, 0, txt, position, length)
      o == ShowText(dev1, position, length, r[2], u)
  IN [o EXCEPT !.ok = r[1]]

CmndIOTTIMERFloat(disp, dev, clear, milli, posArg, precArg, lenArg, u) ==
  FloatRender(disp, dev, clear, FloatStr(milli, FloatPrecision(precArg)),
              FloatPosition(posArg), lenArg, u)

-----------------------------------------------------------------------------
(* IOTTIMERClearDisplay, CmndIOTTIMERClear *)

CmndIOTTIMERClear == Outcome(TRUE, Blank, Blank, 0, 0, <<>>, FullSend)

-----------------------------------------------------------------------------
(* CmndIOTTIMERLevel *)

\* numBars: 2 * width * val / 100.0f printed with no decimals (rounded) and
\* read back with atoi
LevelBars(val) == U8((2 * display_width * val + 50) \div 100)

\* a fill that leaves out the half glyph
RECURSIVE LevelFillNoHalf(_, _, _)
LevelFillNoHalf(buf, i, numBars) ==
  IF i < numBars \div 2 /\ i < IOTTIMER_DIGITS
  THEN LevelFillNoHalf([buf EXCEPT ![i] = 169], i + 1, numBars)
  ELSE [c \in Cells |-> IF c < i THEN buf[c] ELSE 0]

RECURSIVE LevelFill(_, _, _)
LevelFill(buf, i, numBars) ==
  IF i < numBars \div 2 /\ i < IOTTIMER_DIGITS
  THEN LevelFill([buf EXCEPT ![i] = 169], i + 1, numBars)
  ELSE IF i < IOTTIMER_DIGITS /\ numBars % 2 = 1
       THEN [c \in Cells |-> IF c < i THEN buf[c] ELSE IF c = i THEN 160 ELSE 0]
       ELSE [c \in Cells |-> IF c < i THEN buf[c] ELSE 0]

CmndIOTTIMERLevel(disp, dev, payload) ==
  LET val == U16(payload)
  IN IF val < LEVEL_MIN \/ val > LEVEL_MAX
     THEN Outcome(FALSE, disp, dev, 0, 0, <<>>, NoSend)
     ELSE LET d == LevelFill(disp, 0, LevelBars(val))
          IN Outcome(TRUE, d, SendDataArray(dev, 0, d, IOTTIMER_DIGITS), 0, 0, <<>>, FullSend)

-----------------------------------------------------------------------------
(* CmndIOTTIMERRaw *)

\* DATA[k]: the k-th raw value given (argc counts position and length too),
\* 0 when not given; DATA has 4 entries, DATA[k] for k >= 4 reads the stack
\* behind it, g being the byte found there.
RawData(argc, data, k, g) ==
  IF k >= 4 THEN g
  ELSE IF argc <= 6 /\ argc >= k + 3 THEN U8(data[k + 1]) ELSE 0

RawPosition(posArg) ==
  IF ULess(posArg, display_width) THEN posArg ELSE display_width - 1

RawLength(argc, position, lenArg) ==
  LET l0 == IF argc >= 2 THEN lenArg ELSE 0
      l1 == IF l0 = 0 THEN argc - 2 ELSE l0
  IN IF ULess(IOTTIMER_DIGITS, position + l1) THEN IOTTIMER_DIGITS - position ELSE l1

\* for (i = position; i < position + length; i++)
RECURSIVE RawFill(_, _, _, _, _, _, _, _)
RawFill(buf, i, position, length, argc, data, g, u) ==
  IF ULess(i, position + length)
  THEN RawFill([buf EXCEPT ![i] = FontAt(RawData(argc, data, i - position, g), u)],
               i + 1, position, length, argc, data, g, u)
  ELSE buf

\* TM1640SendDataArray(position, IOTTIMERDisplay, length): the data pointer
\* is the start of the buffer, the count is narrowed to uint8_t
RawSend(dev, position, buf, length) == SendDataArray(dev, position, buf, U8(length))

\* switch (ArgC()) has the cases 1 to 6: with any other count no argument is
\* read and position and length stay 0
RawParsed(argc) == argc \in 1 .. 6

CmndIOTTIMERRaw(disp, dev, argc, posArg, lenArg, data, g, u) ==
  LET position == RawPosition(IF RawParsed(argc) THEN posArg ELSE 0)
      length == RawLength(argc, position, IF RawParsed(argc) THEN lenArg ELSE 0)
      d == RawFill(disp, position, position, length, argc, data, g, u)
  IN Outcome(TRUE, d, RawSend(dev, position, d, length), position, length, <<>>,
             <<position, U8(length)>>)

-----------------------------------------------------------------------------
(* CmndIOTTIMERClock, IOTTIMERShowTime *)

\* <<accepted, show_clock, clock_24>>
ClockMode(argc, payload) ==
  LET val == IF argc = 0 THEN 0 ELSE U16(payload)
  IN IF val < 0 \/ val > 2 THEN <<FALSE, FALSE, FALSE>>
     ELSE IF val = 1 THEN <<TRUE, TRUE, FALSE>>
     ELSE IF val = 2 THEN <<TRUE, TRUE, TRUE>>
     ELSE <<TRUE, FALSE, FALSE>>

\* an hour taken modulo 12 in 12-hour mode
ClockHourMod12(hour, c24) == IF c24 THEN hour ELSE hour % 12

\* the hour shown
ClockHour(hour, c24) ==
  IF c24 THEN hour
  ELSE LET h1 == IF hour > 12 THEN hour - 12 ELSE hour
       IN IF h1 = 0 THEN 12 ELSE h1

Glyph(d) == IOTTIMERFont[ZERO + d + 1]
\* a colon that is never lit
WithDotOff(v) == v

WithDot(v) == OrBits(v, Pow2(IOTTIMER_DOT_BIT), 8)

\* the buffer IOTTIMERShowTime leaves
ShowTimeBuf(disp, hour, min, sec, c24, colon) ==
  LET h == ClockHour(hour, c24)
  IN [c \in Cells |->
       IF c \in {12, 13} THEN Glyph(h \div 10)
       ELSE IF c = 14 THEN (IF colon THEN WithDot(Glyph(h % 10)) ELSE Glyph(h % 10))
       ELSE IF c = 15 THEN Glyph(h % 10)
       ELSE IF c = 4 THEN (IF colon THEN WithDot(Glyph(min \div 10)) ELSE Glyph(min \div 10))
       ELSE IF c = 5 THEN Glyph(min \div 10)
       ELSE IF c \in {11, 1} THEN Glyph(min % 10)
       ELSE IF c = 6 THEN Glyph(sec \div 10)
       ELSE IF c = 7 THEN Glyph(sec % 10)
       ELSE disp[c]]

-----------------------------------------------------------------------------
(* CmndIOTTIMERScrollText, CmndIOTTIMERScrollDelay, IOTTIMERScrollText *)

\* a store that keeps the text without the blanks before it
ScrollStoredBare(sString) == sString

\* the stored text up to its first NUL: "    " followed by sString
ScrollStored(sString) == <<SPC, SPC, SPC, SPC>> \o sString

\* for (i = 0, j = scroll_index; i < 1 + strlen(scroll_text); i++, j++):
\* the characters copied into text
RECURSIVE ScrollWindow(_, _, _, _)
ScrollWindow(text, i, j, stored) ==
  IF i < 1 + Len(stored)
  THEN IF i > display_width - 1 THEN text
       ELSE ScrollWindow(Append(text, At(stored, j)), i + 1, j + 1, stored)
  ELSE text

\* the largest i of the copy loop: text[i] = scroll_text[scroll_index + i] for
\* i = 0 .. min(strlen(scroll_text), display_width - 1)
ScrollWindowReach(stored) ==
  IF Len(stored) < display_width - 1 THEN Len(stored) ELSE display_width - 1

\* a scroller that counts its passes but never stops
ScrollStepNoStop(disp, dev, u) ==
  LET it1 == U8(iteration + 1)
      it2 == IF scroll_delay # 0 THEN it1 % scroll_delay ELSE 0
      wrap == scroll_index > Len(scroll_text)
      idx == IF wrap THEN 0 ELSE scroll_index
      cnt == IF wrap THEN U8(scroll_counter + 1) ELSE scroll_counter
      d == DisplayTextBuf(ScrollWindow(<<>>, 0, idx, scroll_text), u)
  IN IF it2 # 0
     THEN [it |-> it2, idx |-> scroll_index, cnt |-> scroll_counter, active |-> TRUE,
           disp |-> disp, dev |-> dev, framed |-> FALSE]
     ELSE [it |-> it2, idx |-> U8(idx + 1), cnt |-> cnt, active |-> TRUE,
           disp |-> d, dev |-> SendDataArray(dev, 0, d, IOTTIMER_DIGITS), framed |-> TRUE]

\* a scroller that stops at its first wrap whatever the loop limit
ScrollStepOnePass(disp, dev, u) ==
  LET it1 == U8(iteration + 1)
      it2 == IF scroll_delay # 0 THEN it1 % scroll_delay ELSE 0
      wrap == scroll_index > Len(scroll_text)
      idx == IF wrap THEN 0 ELSE scroll_index
      cnt == IF wrap THEN U8(scroll_counter + 1) ELSE scroll_counter
      d == DisplayTextBuf(ScrollWindow(<<>>, 0, idx, scroll_text), u)
  IN IF it2 # 0
     THEN [it |-> it2, idx |-> scroll_index, cnt |-> scroll_counter, active |-> TRUE,
           disp |-> disp, dev |-> dev, framed |-> FALSE]
     ELSE IF wrap
     THEN [it |-> it2, idx |-> idx, cnt |-> cnt, active |-> FALSE,
           disp |-> disp, dev |-> dev, framed |-> FALSE]
     ELSE [it |-> it2, idx |-> U8(idx + 1), cnt |-> cnt, active |-> TRUE,
           disp |-> d, dev |-> SendDataArray(dev, 0, d, IOTTIMER_DIGITS), framed |-> TRUE]

\* IOTTIMERScrollText(), called with scroll set: the scroll state and the
\* buffer it leaves; framed tells whether it called IOTTIMERDisplayText
ScrollStep(disp, dev, u) ==
  LET it1 == U8(iteration + 1)
      it2 == IF scroll_delay # 0 THEN it1 % scroll_delay ELSE 0
      wrap == scroll_index > Len(scroll_text)
      idx == IF wrap THEN 0 ELSE scroll_index
      cnt == IF wrap THEN U8(scroll_counter + 1) ELSE scroll_counter
      d == DisplayTextBuf(ScrollWindow(<<>>, 0, idx, scroll_text), u)
  IN IF it2 # 0
     THEN [it |-> it2, idx |-> scroll_index, cnt |-> scroll_counter, active |-> TRUE,
           disp |-> disp, dev |-> dev, framed |-> FALSE]
     ELSE IF wrap /\ scroll_counter_max # 0 /\ cnt >= scroll_counter_max
     THEN [it |-> it2, idx |-> idx, cnt |-> cnt, active |-> FALSE,
           disp |-> disp, dev |-> dev, framed |-> FALSE]
     ELSE [it |-> it2, idx |-> U8(idx + 1), cnt |-> cnt, active |-> TRUE,
           disp |-> d, dev |-> SendDataArray(dev, 0, d, IOTTIMER_DIGITS), framed |-> TRUE]

-----------------------------------------------------------------------------
(* Bounds and inputs *)

\* display functions dispatched after IOTTIMERInitDriver (ticks not counted)
MaxCalls == 2
\* passes through the scroll text followed while it scrolls without a limit
MaxLoops == 2

A10 == <<65, 66, 67, 68, 69, 70, 71, 72, 73, 74>>        \* "ABCDEFGHIJ"
HELLO == <<72, 69, 76, 76, 79>>                          \* "HELLO"
TooLongScroll == [k \in 1 .. (SCROLL_MAX_LEN + 1) |-> 65]

\* bytes an out-of-bounds read may find: behind the font table, on the stack
FlashBytes == {0, 255}
StackBytes == {0, 56}

NumberNums == {7, 1234, 1234567890}
NumberPosArgs == {0, 2, 3, 9}
NumberLenArgs == {0, 2, 4, 10}

FloatMillis == {12340, 1500, 123400}
FloatPosArgs == {0, 9}
FloatPrecArgs == {2, -1}
FloatLenArgs == {0}

\* what ext_snprintf_P may write: "1.5", "-1.5", "12.34", "123.4", "1234.5", "12",
\* "12.345678", "12345678.5"
FloatTexts ==
  { <<49, 46, 53>>, <<45, 49, 46, 53>>, <<49, 50, 46, 51, 52>>, <<49, 50, 51, 46, 52>>,
    <<49, 50, 51, 52, 46, 53>>, <<49, 50>>, <<49, 50, 46, 51, 52, 53, 54, 55, 56>>,
    <<49, 50, 51, 52, 53, 54, 55, 56, 46, 53>> }
FloatTextPosArgs == {0, 1, 2, 5, 9}
FloatTextLenArgs == {0, 2, 3, 9}

TextStrings == {<<65>>, <<49, 46, 50>>, A10}
\* texts with points: "12.", "1.2", "1..2", ".5", "12..", "8.8.8.8.", "AB", "1.2.3",
\* "A...B", "22.5^", "22.5`"
PointTexts ==
  { <<50, 50, 46, 53, 94>>, <<50, 50, 46, 53, 96>>, <<49, 50, 46>>, <<49, 46, 50>>, <<49, 46, 46, 50>>, <<46, 53>>, <<49, 50, 46, 46>>,
    <<56, 46, 56, 46, 56, 46, 56, 46>>, <<65, 66>>, <<49, 46, 50, 46, 51>>,
    <<65, 46, 46, 46, 66>> }
PointTextPosArgs == {0, 2, 8}
PointTextLenArgs == {0, 2, 4}
TextPosArgs == {0, 8}
TextLenArgs == {0, 2}

\* <<ArgC(), position, length, raw values>>
RawArgs ==
  { <<3, 0, 1, <<56>>>>, <<6, 0, 4, <<255, 255, 255, 255>>>>, <<6, 2, 0, <<56, 65, 0, 0>>>>,
    <<3, 8, 9, <<56>>>>, <<3, 12, 1, <<56>>>>, <<3, 2, -1, <<56>>>>, <<3, 2, 1, <<56>>>>,
    <<1, 3, 0, <<>>>>, <<2, 0, 0, <<>>>>, <<4, 10, 2, <<65, 66>>>> }

\* DisplayRaw with one to nine raw values
RawValueArgs ==
  { <<6, 0, 4, <<255, 255, 255, 255>>>>, <<3, 0, 1, <<255>>>>, <<3, 0, 1, <<56>>>>,
    <<5, 2, 3, <<56, 65, 66>>>>, <<6, 0, 2, <<1, 2, 4, 8>>>>, <<4, 3, 0, <<1, 2>>>>,
    <<3, 0, 4, <<1>>>>, <<7, 0, 5, <<56, 56, 56, 56, 56>>>>,
    <<11, 0, 9, <<1, 2, 4, 8, 16, 32, 64, 128, 255>>>> }

LevelPayloads == {0, 50, 150, -1}
\* every percentage, and payloads outside 0..100: -1, 101, 150, 65535, 65536 + 50,
\* 50 - 65536, 65536 + 150
LevelPercents == 0 .. 100
LevelOutside == {-1, 101, 150, 65535, 65586, -65486, 65686}
\* <<ArgC(), XdrvMailbox.payload>>
ClockArgs == {<<0, 0>>, <<1, 0>>, <<1, 1>>, <<1, 2>>, <<1, 3>>}
ScrollStrings == {<<72, 73>>, HELLO, TooLongScroll}
ScrollLoopArgs == {0, 1, 2}
\* accepted scroll texts of 0, 42, 43 and SCROLL_MAX_LEN characters
LongScrollStrings == { [k \in 1 .. n |-> 65] : n \in {0, 42, 43, SCROLL_MAX_LEN} }
ScrollDelayArgs == {<<0, 0>>, <<1, 0>>, <<1, 1>>, <<1, 3>>}
\* payloads of DisplayScrollDelay inside and outside 0..15
ScrollDelayPayloads == (0 .. 20) \cup {200, 255, 256, -1}
DimLevels == 0 .. 8
\* addresses and bytes handed to the transport: 0xA5 and 0x5A have no symmetry
\* between their two ends
BusAddresses == {0, 3, 15}
BusBytes == {0, 1, 128, 165, 255}
BusArrays == {<<>>, <<165>>, <<1, 90>>}
\* the dimmer level when the display is initialised or switched on
PowerLevels == {0, 4}
\* RtcTime: <<hour, minute, second>>
Times == {<<0, 0, 0>>, <<13, 45, 59>>}
\* every hour of the day
DayTimes == { <<h, m[1], m[2]>> : h \in 0 .. 23, m \in {<<0, 0>>, <<45, 59>>} }

Commands == {"Clear", "Number", "NumberNC", "Float", "FloatNC", "Raw", "Text", "TextNC",
             "Level", "ScrollText", "ScrollDelay", "Clock"}

-----------------------------------------------------------------------------
(* The state machine: Xdsp21 and what it dispatches to *)

\* the last operation: its name, its arguments as integers (a text argument
\* comes last, as its character codes), whether the function's own code ran
\* (the driver was initialised and the command text was not too long), and
\* the fields of its outcome
Rec(fn, in, ran, ok, pos, len, text, send) ==
  [fn |-> fn, in |-> in, ran |-> ran, ok |-> ok, pos |-> pos, len |-> len,
   text |-> text, send |-> send]

Init ==
  /\ Display = Blank
  /\ Device \in {Blank, [c \in Cells |-> 255]}
  /\ ctrl = 0
  /\ scroll_text = <<>>
  /\ scroll_delay = 4
  /\ scroll_index = 0
  /\ iteration = 0
  /\ scroll_counter = 0
  /\ scroll_counter_max = 3
  /\ scroll = FALSE
  /\ show_clock = FALSE
  /\ clock_24 = FALSE
  /\ clock_colon_state = FALSE
  /\ init_driver_done = FALSE
  /\ disp_power = TRUE
  /\ last = Rec("Boot", <<>>, FALSE, FALSE, 0, 0, <<>>, NoSend)
  /\ cmds = 0
  /\ clock_pin = 1
  /\ data_pin = 1
  /\ wire_todo = <<>>
  /\ wire_rx = <<>>

\* FUNC_DISPLAY_INIT_DRIVER: IOTTIMERInitDriver (IOTTIMERDim, IOTTIMERClearDisplay)
InitDriver ==
  /\ ~init_driver_done
  /\ \E level \in PowerLevels :
       /\ ctrl' = SetBrightnessCmd(level)
       /\ last' = Rec("InitDriver", <<level>>, TRUE, FALSE, 0, 0, <<>>, FullSend)
  /\ Display' = Blank
  /\ Device' = Blank
  /\ init_driver_done' = TRUE
  /\ UNCHANGED <<wireVars, scrollVars, clockVars, disp_power, cmds>>

\* a dispatcher that lets a ScrollText through while the driver is not initialised
UnconfiguredStartsScroll ==
  /\ ~init_driver_done
  /\ last' = Rec("ScrollText", <<>>, FALSE, FALSE, 0, 0, <<>>, NoSend)
  /\ scroll' = TRUE
  /\ UNCHANGED <<wireVars, Display, Device, ctrl, scroll_text, scroll_delay, scroll_index, iteration,
                 scroll_counter, scroll_counter_max, clockVars, init_driver_done,
                 disp_power, cmds>>

\* a display function while the driver is not initialised: Xdsp21 does nothing
Unconfigured ==
  /\ ~init_driver_done
  /\ \E fn \in Commands \cup {"Tick50", "Dim", "Power"} :
       last' = Rec(fn, <<>>, FALSE, FALSE, 0, 0, <<>>, NoSend)
  /\ UNCHANGED <<wireVars, Display, Device, ctrl, scrollVars, clockVars, init_driver_done,
                 disp_power, cmds>>

\* a dispatcher that runs the command and leaves the scroller as it is
RenderKeepScroll(fn, in, o) ==
  /\ init_driver_done
  /\ cmds < MaxCalls
  /\ cmds' = cmds + 1
  /\ Display' = o.disp
  /\ Device' = o.dev
  /\ last' = Rec(fn, in, TRUE, o.ok, o.pos, o.len, o.text, o.send)
  /\ UNCHANGED <<wireVars, ctrl, scrollVars, clockVars, init_driver_done, disp_power>>

\* the part of IOTTIMERMainFunc common to the commands that render:
\* scroll is reset, the command runs, o is its outcome
Render(fn, in, o) ==
  /\ init_driver_done
  /\ cmds < MaxCalls
  /\ cmds' = cmds + 1
  /\ scroll' = FALSE
  /\ Display' = o.disp
  /\ Device' = o.dev
  /\ last' = Rec(fn, in, TRUE, o.ok, o.pos, o.len, o.text, o.send)
  /\ UNCHANGED <<wireVars, ctrl, scroll_text, scroll_delay, scroll_index, iteration,
                 scroll_counter, scroll_counter_max, clockVars, init_driver_done,
                 disp_power>>

\* XdrvMailbox.data_len > CMD_MAX_LEN: IOTTIMERMainFunc returns false
CmdTooLong ==
  /\ init_driver_done
  /\ cmds < MaxCalls
  /\ cmds' = cmds + 1
  /\ \E fn \in Commands :
       /\ scroll' = IF fn # "ScrollDelay" THEN FALSE ELSE scroll
       /\ last' = Rec(fn, <<>>, FALSE, FALSE, 0, 0, <<>>, NoSend)
  /\ UNCHANGED <<wireVars, Display, Device, ctrl, scroll_text, scroll_delay, scroll_index, iteration,
                 scroll_counter, scroll_counter_max, clockVars, init_driver_done,
                 disp_power>>

CmdClear == Render("Clear", <<>>, CmndIOTTIMERClear)

CmdNumber ==
  \E clear \in BOOLEAN, num \in NumberNums, p \in NumberPosArgs, lz \in {0, 1},
     l \in NumberLenArgs :
    Render(IF clear THEN "Number" ELSE "NumberNC", <<num, p, lz, l>>,
           CmndIOTTIMERNumber(Device, clear, num, p, lz, l, 0))

CmdFloat ==
  \E clear \in BOOLEAN, m \in FloatMillis, p \in FloatPosArgs, pr \in FloatPrecArgs,
     l \in FloatLenArgs :
    Render(IF clear THEN "Float" ELSE "FloatNC", <<m, p, pr, l>>,
           CmndIOTTIMERFloat(Display, Device, clear, m, p, pr, l, 0))

CmdText ==
  \E clear \in BOOLEAN, t \in TextStrings, p \in TextPosArgs, l \in TextLenArgs,
     u \in FlashBytes :
    Render(IF clear THEN "Text" ELSE "TextNC", <<p, l>> \o t,
           CmndIOTTIMERText(Device, clear, t, p, l, u))

CmdRaw ==
  \E a \in RawArgs, g \in StackBytes, u \in FlashBytes :
    Render("Raw", <<a[1], a[2], a[3]>> \o a[4],
           CmndIOTTIMERRaw(Display, Device, a[1], a[2], a[3], a[4], g, u))

CmdLevel ==
  \E v \in LevelPayloads :
    Render("Level", <<v>>, CmndIOTTIMERLevel(Display, Device, v))

CmdClock ==
  \E a \in ClockArgs :
    LET m == ClockMode(a[1], a[2])
    IN /\ init_driver_done
       /\ cmds < MaxCalls
       /\ cmds' = cmds + 1
       /\ scroll' = FALSE
       /\ IF m[1]
          THEN /\ show_clock' = m[2]
               /\ clock_24' = m[3]
               /\ Display' = Blank
               /\ Device' = Blank
               /\ last' = Rec("Clock", a, TRUE, TRUE, 0, 0, <<>>, FullSend)
          ELSE /\ UNCHANGED <<show_clock, clock_24, Display, Device>>
               /\ last' = Rec("Clock", a, TRUE, FALSE, 0, 0, <<>>, NoSend)
       /\ UNCHANGED <<wireVars, ctrl, scroll_text, scroll_delay, scroll_index, iteration,
                      scroll_counter, scroll_counter_max, clock_colon_state,
                      init_driver_done, disp_power>>

\* CmndIOTTIMERScrollText: sString has SCROLL_MAX_LEN + 1 bytes; a longer text
\* overruns it before the length check, and maxLoopCount, which lies behind it
\* on the stack, may then hold a byte of the text.
CmdScrollTextOf(strings, loops) ==
  \E t \in strings, n \in loops :
    /\ init_driver_done
    /\ cmds < MaxCalls
    /\ cmds' = cmds + 1
    /\ IF Len(t) > SCROLL_MAX_LEN
       THEN /\ scroll_counter_max' \in {U8(n), t[Len(t)], NUL}
            /\ scroll' = FALSE
            /\ UNCHANGED <<scroll_text, scroll_index, scroll_counter>>
            /\ last' = Rec("ScrollText", <<n>> \o t, TRUE, FALSE, 0, 0, <<>>, NoSend)
       ELSE /\ scroll_counter_max' = U8(n)
            /\ scroll_text' = ScrollStored(t)
            /\ scroll_index' = 0
            /\ scroll' = TRUE
            /\ scroll_counter' = 0
            /\ last' = Rec("ScrollText", <<n>> \o t, TRUE, TRUE, 0, 0, <<>>, NoSend)
    /\ UNCHANGED <<wireVars, Display, Device, ctrl, scroll_delay, iteration, clockVars,
                   init_driver_done, disp_power>>

CmdScrollText == CmdScrollTextOf(ScrollStrings, ScrollLoopArgs)

CmdScrollDelay ==
  \E a \in ScrollDelayArgs :
    /\ init_driver_done
    /\ cmds < MaxCalls
    /\ cmds' = cmds + 1
    /\ scroll_delay' = IF a[1] = 0 THEN scroll_delay ELSE U8(a[2])
    /\ last' = Rec("ScrollDelay", a, TRUE, TRUE, 0, 0, <<>>, NoSend)
    /\ UNCHANGED <<wireVars, Display, Device, ctrl, scroll_text, scroll_index, iteration,
                   scroll_counter, scroll_counter_max, scroll, clockVars,
                   init_driver_done, disp_power>>

\* FUNC_DISPLAY_DIM: IOTTIMERDim; level is changeUIntScale(GetDisplayDimmer(), 0, 100, 0, 8)
Dim ==
  \E level \in DimLevels :
    /\ init_driver_done
    /\ cmds < MaxCalls
    /\ cmds' = cmds + 1
    /\ ctrl' = SetBrightnessCmd(level)
    /\ last' = Rec("Dim", <<level>>, TRUE, FALSE, 0, 0, <<>>, NoSend)
    /\ UNCHANGED <<wireVars, Display, Device, scrollVars, clockVars, init_driver_done, disp_power>>

\* FUNC_DISPLAY_POWER: IOTTIMERDisplayOnOff, disp_power set by the display core
Power ==
  \E on \in BOOLEAN, level \in PowerLevels :
    /\ init_driver_done
    /\ cmds < MaxCalls
    /\ cmds' = cmds + 1
    /\ disp_power' = on
    /\ ctrl' = SetBrightnessCmd(IF on THEN level ELSE 0)
    /\ last' = Rec("Power", <<IF on THEN 1 ELSE 0, level>>, TRUE, FALSE, 0, 0, <<>>, NoSend)
    /\ UNCHANGED <<wireVars, Display, Device, scrollVars, clockVars, init_driver_done>>

\* FUNC_DISPLAY_EVERY_50_MSECOND with something to do, RtcTime being one of times
TickAt(times) ==
  /\ init_driver_done
  /\ disp_power
  /\ scroll \/ show_clock
  /\ scroll => scroll_counter < MaxLoops
  /\ \E t \in times, u \in FlashBytes :
     \E s \in { IF scroll THEN ScrollStep(Display, Device, u)
                ELSE [it |-> iteration, idx |-> scroll_index, cnt |-> scroll_counter,
                      active |-> FALSE, disp |-> Display, dev |-> Device,
                      framed |-> FALSE] } :
       LET d == IF show_clock
                THEN ShowTimeBuf(s.disp, t[1], t[2], t[3], clock_24, clock_colon_state)
                ELSE s.disp
       IN /\ iteration' = s.it
          /\ scroll_index' = s.idx
          /\ scroll_counter' = s.cnt
          /\ scroll' = s.active
          /\ Display' = d
          /\ Device' = IF show_clock THEN SendDataArray(s.dev, 0, d, IOTTIMER_DIGITS) ELSE s.dev
          /\ clock_colon_state' = IF show_clock THEN ~clock_colon_state ELSE clock_colon_state
          /\ last' = Rec("Tick50", IF show_clock THEN t ELSE <<>>, TRUE, FALSE, 0, 0, <<>>,
                         IF show_clock \/ s.framed THEN FullSend ELSE NoSend)
  /\ UNCHANGED <<wireVars, ctrl, scroll_text, scroll_delay, scroll_counter_max, show_clock, clock_24,
                 init_driver_done, disp_power, cmds>>

Tick50 == TickAt(Times)

Next ==
  \/ InitDriver
  \/ Unconfigured
  \/ CmdTooLong
  \/ CmdClear
  \/ CmdNumber
  \/ CmdFloat
  \/ CmdText
  \/ CmdRaw
  \/ CmdLevel
  \/ CmdClock
  \/ CmdScrollText
  \/ CmdScrollDelay
  \/ Dim
  \/ Power
  \/ Tick50

Spec == Init /\ [][Next]_vars

\* The scroller on its own: the commands that start, retime, stop or suspend
\* it, and the 50 ms tick, which the scheduler delivers for as long as the
\* display is on and has something to show
ScrollNext ==
  \/ InitDriver
  \/ CmdScrollText
  \/ CmdScrollDelay
  \/ CmdClear
  \/ Power
  \/ Tick50

ScrollSpec == Init /\ [][ScrollNext]_vars /\ WF_vars(Tick50)

\* CmndIOTTIMERFloat on its own, over the texts ext_snprintf_P may hand it
CmdFloatText ==
  \E clear \in BOOLEAN, txt \in FloatTexts, p \in FloatTextPosArgs, l \in FloatTextLenArgs :
    Render(IF clear THEN "Float" ELSE "FloatNC", <<p, l>> \o txt,
           FloatRender(Display, Device, clear, txt, FloatPosition(p), l, 0))

FloatNext ==
  \/ InitDriver
  \/ CmdFloatText

FloatSpec == Init /\ [][FloatNext]_vars

\* CmndIOTTIMERText on its own, over texts with points
CmdPointText ==
  \E clear \in BOOLEAN, t \in PointTexts, p \in PointTextPosArgs, l \in PointTextLenArgs,
     u \in FlashBytes :
    Render(IF clear THEN "Text" ELSE "TextNC", <<p, l>> \o t,
           CmndIOTTIMERText(Device, clear, t, p, l, u))

TextNext ==
  \/ InitDriver
  \/ CmdPointText

TextSpec == Init /\ [][TextNext]_vars

\* CmndIOTTIMERLevel on its own, over every percentage and payloads outside
CmdLevelAny ==
  \E v \in LevelPercents \cup LevelOutside :
    Render("Level", <<v>>, CmndIOTTIMERLevel(Display, Device, v))

LevelNext ==
  \/ InitDriver
  \/ CmdLevelAny

LevelSpec == Init /\ [][LevelNext]_vars

\* CmndIOTTIMERRaw on its own, over one to nine raw values
CmdRawValues ==
  \E a \in RawValueArgs, g \in StackBytes, u \in FlashBytes :
    Render("Raw", <<a[1], a[2], a[3]>> \o a[4],
           CmndIOTTIMERRaw(Display, Device, a[1], a[2], a[3], a[4], g, u))

RawNext ==
  \/ InitDriver
  \/ CmdRawValues

RawSpec == Init /\ [][RawNext]_vars

\* CmndIOTTIMERScrollDelay on its own: without an argument, or with a payload
CmdScrollDelayAny ==
  \E argc \in {0, 1}, payload \in ScrollDelayPayloads :
    /\ init_driver_done
    /\ cmds < MaxCalls
    /\ cmds' = cmds + 1
    /\ scroll_delay' = IF argc = 0 THEN scroll_delay ELSE U8(payload)
    /\ last' = Rec("ScrollDelay", <<argc, IF argc = 0 THEN 0 ELSE payload>>, TRUE, TRUE,
                   0, 0, <<>>, NoSend)
    /\ UNCHANGED <<wireVars, Display, Device, ctrl, scroll_text, scroll_index, iteration,
                   scroll_counter, scroll_counter_max, scroll, clockVars,
                   init_driver_done, disp_power>>

DelayNext ==
  \/ InitDriver
  \/ CmdScrollDelayAny

DelaySpec == Init /\ [][DelayNext]_vars

\* the clock on its own, over every hour of the day
TickDay == TickAt(DayTimes)

ClockNext ==
  \/ InitDriver
  \/ CmdClock
  \/ TickDay

ClockSpec == Init /\ [][ClockNext]_vars

\* the scroller with texts up to the longest one accepted
CmdScrollLong == CmdScrollTextOf(LongScrollStrings, {1})

LongScrollNext ==
  \/ InitDriver
  \/ CmdScrollLong
  \/ Tick50

LongScrollSpec == Init /\ [][LongScrollNext]_vars

\* the transport on its own, one digitalWrite at a time.
\* a call of TM1640SendData, TM1640SendDataArray or TM1640SetBrightness while
\* the bus is idle: last.in is <<address, data>>, <<address, count>> followed
\* by the bytes, or <<level>>
BusCall ==
  /\ init_driver_done
  /\ wire_todo = <<>>
  /\ cmds < MaxCalls
  /\ cmds' = cmds + 1
  /\ wire_rx' = <<>>
  /\ \/ \E address \in BusAddresses, data \in BusBytes :
          /\ wire_todo' = TM1640SendData(address, data)
          /\ last' = Rec("TM1640SendData", <<address, data>>, TRUE, FALSE, 0, 0, <<>>,
                         NoSend)
     \/ \E address \in BusAddresses, data \in BusArrays :
          /\ wire_todo' = TM1640SendDataArray(address, data, Len(data))
          /\ last' = Rec("TM1640SendDataArray", <<address, Len(data)>> \o data, TRUE,
                         FALSE, 0, 0, <<>>, <<address, Len(data)>>)
     \/ \E level \in DimLevels :
          /\ wire_todo' = TM1640SetBrightness(level)
          /\ last' = Rec("TM1640SetBrightness", <<level>>, TRUE, FALSE, 0, 0, <<>>,
                         NoSend)
  /\ UNCHANGED <<Display, Device, ctrl, scrollVars, clockVars, init_driver_done,
                 disp_power, clock_pin, data_pin>>

\* the next digitalWrite of the operation in progress; with the last one the
\* chip has taken what was sent
BusWrite ==
  /\ wire_todo # <<>>
  /\ LET w == Head(wire_todo)
     IN /\ clock_pin' = IF w.pin = "clock" THEN w.level ELSE clock_pin
        /\ data_pin' = IF w.pin = "data" THEN w.level ELSE data_pin
        /\ wire_rx' = Observe(wire_rx, clock_pin, data_pin, w)
  /\ wire_todo' = Tail(wire_todo)
  /\ IF Len(wire_todo) = 1
     THEN /\ Device' = IF last.fn = "TM1640SendData"
                       THEN SendData(Device, last.in[1], last.in[2])
                       ELSE IF last.fn = "TM1640SendDataArray"
                       THEN SendDataArray(Device, last.in[1],
                                          [k \in Cells |-> At(SubSeq(last.in, 3, Len(last.in)), k)],
                                          last.in[2])
                       ELSE Device
          /\ ctrl' = IF last.fn = "TM1640SetBrightness"
                     THEN SetBrightnessCmd(last.in[1]) ELSE ctrl
     ELSE UNCHANGED <<Device, ctrl>>
  /\ UNCHANGED <<Display, scrollVars, clockVars, init_driver_done, disp_power, last, cmds>>

BusNext ==
  \/ InitDriver
  \/ BusCall
  \/ BusWrite

BusSpec == Init /\ [][BusNext]_vars

-----------------------------------------------------------------------------
(* Properties *)

TextFns == {"Text", "TextNC"}
NumberFns == {"Number", "NumberNC"}
FloatFns == {"Float", "FloatNC"}
NoClearFns == {"NumberNC", "FloatNC", "TextNC"}
ScrollEndingFns == Commands \ {"ScrollText", "ScrollDelay"}

\* C1: a text command leaves every cell with index >= display_width as it was
C1_TextStaysInsideWidth ==
  [][(last'.fn \in TextFns /\ last'.ran)
       => \A c \in Cells : c >= display_width => Display'[c] = Display[c]]_vars

\* C2: a command that returns failure leaves the buffer as it was or blank
C2_FailureLeavesBufferWhole ==
  [][(last'.fn \in Commands /\ ~last'.ok)
       => (Display' = Display \/ Display' = Blank)]_vars

\* a FloatNC command failed and the buffer still holds what was rendered before
C2_Witness ==
  /\ last.fn = "FloatNC" /\ last.ran /\ ~last.ok
  /\ Display # Blank

\* C3: once initialised, the device memory equals the display buffer
C3_DeviceEqualsBuffer ==
  init_driver_done => \A a \in Cells : Device[a] = Display[a]

C5_ScrollTerminates ==
  /\ (scroll /\ scroll_counter_max # 0 /\ disp_power)
       ~> (~scroll \/ ~disp_power \/ scroll_counter_max = 0)
  /\ [][(last'.fn = "Tick50" /\ scroll /\ ~scroll')
          => (scroll_index' = 0 /\ scroll_counter' >= scroll_counter_max')]_vars

\* a tick stopped the scroller after its last pass
C5_Witness ==
  /\ last.fn = "Tick50" /\ ~scroll
  /\ scroll_counter_max # 0 /\ scroll_counter >= scroll_counter_max
  /\ scroll_index = 0 /\ scroll_text # <<>>

\* C6: a no-clear command leaves every cell after the rendered content as it was
C6_NoClearKeepsRest ==
  [][(last'.fn \in NoClearFns /\ last'.ran /\ last'.ok)
       => \A c \in Cells :
            c >= TextCells(last'.text, 0, 0, 0) => Display'[c] = Display[c]]_vars

\* C7: TM1640SetBrightness(0) sends a byte with the display-on bit clear, and
\* TM1640SetBrightness(level) for level 1..8 sends 0x88 | (level - 1)
C7_BrightnessByte ==
  last.fn = "Dim" /\ last.ran
    => LET level == last.in[1]
       IN /\ level = 0 => Bit(ctrl, 3) = 0
          /\ level \in 1 .. 8 => ctrl = 136 + (level - 1)

\* C8: Number, Float, Text and Raw resolve 0 <= position < display_width and
\* 1 <= length <= display_width - position
C8_ResolvedWindow ==
  (last.fn \in NumberFns \cup FloatFns \cup TextFns \cup {"Raw"} /\ last.ran)
    => /\ 0 <= last.pos /\ last.pos < display_width
       /\ 1 <= last.len /\ last.len <= display_width - last.pos

\* the number of decimal digits of v, and its k-th digit from the left
RECURSIVE NumLen(_)
NumLen(v) == IF v < 10 THEN 1 ELSE 1 + NumLen(v \div 10)
RECURSIVE DigitOf(_, _)
DigitOf(v, k) == IF k >= NumLen(v) - 1 THEN v % 10 ELSE DigitOf(v \div 10, k)
GlyphOf(c) == IOTTIMERFont[c + 1]

\* blanks, then pads, then the digits of v right-aligned in p .. p+L-1, then blanks
NumberLayout(v, p, padWithZeros, L) ==
  [c \in Cells |->
     IF c < p THEN 0
     ELSE IF c < p + L - NumLen(v) THEN (IF padWithZeros THEN GlyphOf(ZERO) ELSE 0)
     ELSE IF c < p + L THEN GlyphOf(ZERO + DigitOf(v, c - (p + L - NumLen(v))))
     ELSE 0]

\* C9: a number of d digits rendered at p with length L (d when given as 0),
\* d <= L and p + L <= display_width, gives blanks, pads, the digits, blanks
C9_NumberLayout ==
  (last.fn \in NumberFns /\ last.ran)
    => LET v == last.in[1]
           p == last.in[2]
           L == IF last.in[4] = 0 THEN NumLen(v) ELSE last.in[4]
       IN (v >= 0 /\ p >= 0 /\ NumLen(v) <= L /\ p + L <= display_width)
            => /\ last.ok
               /\ Display = NumberLayout(v, p, last.in[3] # 0, L)

\* 7 was rendered at position 2 with zero padding to length 4
C9_Witness ==
  /\ last.fn = "Number" /\ last.ran
  /\ last.in = <<7, 2, 1, 4>>
  /\ Display[2] = GlyphOf(ZERO) /\ Display[5] = GlyphOf(ZERO + 7)

\* C10: a number with more digits than the resolved length L succeeds, with
\* its first L digits in cells position .. position+L-1 and every other cell blank
C10_NumberTruncated ==
  (last.fn \in NumberFns /\ last.ran /\ last.in[1] >= 0 /\ NumLen(last.in[1]) > last.len)
    => /\ last.ok
       /\ \A c \in Cells :
            Display[c] = IF c >= last.pos /\ c < last.pos + last.len
                         THEN GlyphOf(ZERO + DigitOf(last.in[1], c - last.pos))
                         ELSE 0

-----------------------------------------------------------------------------
(* CmndIOTTIMERFloat, under FloatSpec: last.in is <<position, length>> followed
   by the formatted text *)

FloatTxt == SubSeq(last.in, 3, Len(last.in))

\* the index of the first point of s counted from 0, Len(s) when it has none
RECURSIVE PointAt(_, _)
PointAt(s, k) == IF k >= Len(s) \/ s[k + 1] = DOT THEN k ELSE PointAt(s, k + 1)

HasPoint(s) == PointAt(s, 0) < Len(s)

\* the index the point of the formatted text falls on, leading blanks counted
PointIndex == last.pos + PointAt(FloatTxt, 0)

\* s without its points
RECURSIVE NoPoints(_)
NoPoints(s) ==
  IF s = <<>> THEN <<>>
  ELSE IF s[1] = DOT THEN NoPoints(Tail(s)) ELSE <<s[1]>> \o NoPoints(Tail(s))

IsPrefix(a, b) == Len(a) <= Len(b) /\ a = SubSeq(b, 1, Len(a))

FloatRan == last.fn \in FloatFns /\ last.ran

\* C11 as stated: Float fails whenever the point of the formatted text falls on
\* an index other than 2 or 3
C11_FailsOffPoint ==
  (FloatRan /\ HasPoint(FloatTxt) /\ PointIndex \notin {2, 3}) => ~last.ok

\* C11: Float fails exactly when the point of the formatted text falls on an
\* index other than 2 or 3 that the copy reaches, that is an index below
\* position + length and not above the display width; a point behind the
\* copied part is cut off with the digits after it and the command succeeds
C11_FailsWhenPointReached ==
  FloatRan
    => (~last.ok <=> /\ HasPoint(FloatTxt)
                     /\ PointIndex \notin {2, 3}
                     /\ PointIndex < last.pos + last.len
                     /\ PointIndex <= display_width)

\* "1.5" at position 0 was refused: its point falls on index 1
C11_Witness ==
  /\ last.fn = "Float" /\ last.ran /\ ~last.ok
  /\ last.in = <<0, 0, 49, 46, 53>>
  /\ PointIndex = 1

\* the formatted text has its point on index 3 and the copy reaches it
PointOnThree ==
  /\ FloatRan /\ HasPoint(FloatTxt)
  /\ PointIndex = 3 /\ PointIndex < last.pos + last.len

\* the characters shown, points left out, are the blanks of position and the
\* digits of the formatted text in their order
DigitsInOrder ==
  IsPrefix(NoPoints(last.text), Spaces(<<>>, 0, last.pos) \o NoPoints(FloatTxt))

\* C12 as stated: a point that would fall on index 3 ends on index 2, the
\* digits keep their order and the command succeeds
C12_PointEndsOnTwo ==
  PointOnThree => (last.ok /\ At(last.text, 2) = DOT /\ DigitsInOrder)

\* C12: a point that would fall on index 3 is moved two places to the left and
\* ends on index 1, so the dot bit is set on cell 0; the digits keep their
\* order and the command succeeds
C12_PointEndsOnOne ==
  PointOnThree
    => /\ last.ok
       /\ At(last.text, 1) = DOT
       /\ \A k \in 0 .. (Len(last.text) - 1) : k # 1 => At(last.text, k) # DOT
       /\ DigitsInOrder
       /\ Bit(Display[0], IOTTIMER_DOT_BIT) = 1
       /\ Bit(Display[1], IOTTIMER_DOT_BIT) = 0

\* "123.4" at position 0 was shown as "1.234"
C12_Witness ==
  /\ last.fn = "Float" /\ last.ran /\ last.ok
  /\ last.in = <<0, 0, 49, 50, 51, 46, 52>>
  /\ last.text = <<49, 46, 50, 51, 52>>

\* C13: a formatted text with two characters before its point, rendered at
\* position 0 with its natural length, succeeds; its n characters other than
\* the point fill cells 0..n-1 in order, the dot bit is set on cell 1, which
\* holds the digit before the point, and on no other cell, and the cells
\* from n on are blank
C13_PointPackedIntoDigit ==
  (FloatRan /\ HasPoint(FloatTxt) /\ PointAt(FloatTxt, 0) = 2
     /\ last.pos = 0 /\ last.in[2] = 0 /\ Len(FloatTxt) - 1 <= display_width)
    => LET digits == NoPoints(FloatTxt)
           n == Len(digits)
       IN /\ last.ok
          /\ n = Len(FloatTxt) - 1
          /\ \A c \in Cells :
                /\ Display[c] = IF c >= n THEN 0
                               ELSE IF c = 1
                                    THEN GlyphOf(digits[c + 1]) + Pow2(IOTTIMER_DOT_BIT)
                                    ELSE GlyphOf(digits[c + 1])
                /\ Bit(Display[c], IOTTIMER_DOT_BIT) = (IF c = 1 THEN 1 ELSE 0)

\* "12.34" was rendered at position 0: '1', '2' with the dot bit, '3', '4'
C13_Witness ==
  /\ last.fn = "Float" /\ last.ran /\ last.ok
  /\ last.in = <<0, 0, 49, 50, 46, 51, 52>>
  /\ Display[0] = GlyphOf(49) /\ Display[1] = GlyphOf(50) + Pow2(IOTTIMER_DOT_BIT)
  /\ Display[2] = GlyphOf(51) /\ Display[3] = GlyphOf(52) /\ Display[4] = 0

-----------------------------------------------------------------------------
(* CmndIOTTIMERText, under TextSpec: last.in is <<position, length>> followed
   by the text *)

TextArg == SubSeq(last.in, 3, Len(last.in))

TextRan == last.fn \in TextFns /\ last.ran

\* the number of points of s
PointCount(s) == Len(s) - Len(NoPoints(s))

\* the index in s of its n-th character other than a point, from index k on
RECURSIVE CharIndex(_, _, _)
CharIndex(s, k, n) ==
  IF s[k] = DOT THEN CharIndex(s, k + 1, n)
  ELSE IF n > 1 THEN CharIndex(s, k + 1, n - 1)
  ELSE k

\* a point follows the n-th character of s other than a point
PointFollows(s, n) == At(s, CharIndex(s, 1, n)) = DOT

\* a text of at most four points and at most length other characters that
\* does not begin with a point
FewPoints ==
  /\ TextRan
  /\ TextArg[1] # DOT
  /\ PointCount(TextArg) <= 4
  /\ Len(NoPoints(TextArg)) <= last.len

\* C14: in a text of at most four points and at most length other characters
\* every point sets the dot bit of the cell of the character before it and
\* takes no cell: the k characters other than points are in cells
\* position .. position+k-1, with the dot bit where a point follows, and the
\* cells behind them are blank
C14_EveryPointAttaches ==
  FewPoints
    => LET chars == NoPoints(TextArg)
       IN \A c \in Cells :
            /\ (c >= last.pos /\ c < last.pos + Len(chars))
                 => Display[c] = GlyphOf(chars[c - last.pos + 1])
                                 + (IF PointFollows(TextArg, c - last.pos + 1)
                                    THEN Pow2(IOTTIMER_DOT_BIT) ELSE 0)
            /\ c >= last.pos + Len(chars) => Display[c] = 0

-----------------------------------------------------------------------------
(* CmndIOTTIMERLevel, under LevelSpec: last.in is <<payload>> *)

FullGlyph == 169
HalfGlyph == 160

\* 2 * width * percent / 100 rounded to an integer
HalfCells(percent) == (2 * display_width * percent + 50) \div 100

\* the lit half-cells of a buffer
RECURSIVE LitFrom(_, _)
LitFrom(buf, c) ==
  IF c = IOTTIMER_DIGITS THEN 0
  ELSE (IF buf[c] = FullGlyph THEN 2 ELSE IF buf[c] = HalfGlyph THEN 1 ELSE 0)
       + LitFrom(buf, c + 1)

LevelOf(r) == r.fn = "Level" /\ r.ran /\ r.in[1] \in 0 .. 100

\* C15: Level with a percentage in 0..100 and n = 2 * width * percent / 100
\* rounded succeeds, sets cells 0 .. n div 2 - 1 to the full glyph, cell
\* n div 2 to the half glyph exactly when n is odd and every other cell to
\* blank; no cell from display_width on is lit; after a Level that follows a
\* Level with a smaller or equal percentage no fewer half-cells are lit
C15_BarLayout ==
  [][LevelOf(last')
       => LET n == HalfCells(last'.in[1])
          IN /\ last'.ok
             /\ \A c \in Cells :
                   /\ Display'[c] = IF c < n \div 2 THEN FullGlyph
                                    ELSE IF c = n \div 2 /\ n % 2 = 1 THEN HalfGlyph
                                    ELSE 0
                   /\ Display'[c] # 0 => c < display_width
             /\ LitFrom(Display', 0) = n
             /\ (LevelOf(last) /\ last.in[1] <= last'.in[1])
                  => LitFrom(Display, 0) <= LitFrom(Display', 0)]_vars

\* Level 50 lit nine half-cells: four full glyphs and a half glyph
C15_Witness ==
  /\ last.fn = "Level" /\ last.ran /\ last.ok
  /\ last.in = <<50>>
  /\ Display[3] = FullGlyph /\ Display[4] = HalfGlyph /\ Display[5] = 0

\* C16: Level with a payload outside 0..100 fails and leaves every cell of
\* the buffer as it was
C16_LevelOutsideFails ==
  [][(last'.fn = "Level" /\ last'.ran /\ last'.in[1] \notin 0 .. 100)
       => (~last'.ok /\ Display' = Display)]_vars

-----------------------------------------------------------------------------
(* CmndIOTTIMERRaw, under RawSpec: last.in is <<ArgC(), position, length>>
   followed by the raw values *)

RawValues(r) == SubSeq(r.in, 4, Len(r.in))

\* the cells the values given are to fill: min(k, length) of them, length
\* being k when given as 0
RawCount(r) ==
  LET k == Len(RawValues(r))
      l == IF r.in[3] = 0 THEN k ELSE r.in[3]
  IN IF k < l THEN k ELSE l

\* a Raw command with 1 .. display_width values, position and length in range
RawInRange(r) ==
  /\ r.fn = "Raw" /\ r.ran
  /\ Len(RawValues(r)) \in 1 .. display_width
  /\ r.in[2] \in 0 .. (display_width - 1)
  /\ r.in[3] \in 0 .. (display_width - r.in[2])

\* C17: a raw value of 255 given to Raw leaves its cell at 0xFF, so
\* DisplayRaw 0,4,255,255,255,255 leaves cells 0..3 at 0xFF
C17_Raw255LightsAll ==
  RawInRange(last)
    => \A j \in 1 .. RawCount(last) :
         RawValues(last)[j] = 255 => Display[last.in[2] + j - 1] = 255

\* what a cell may hold when the raw value v alone determines it: v itself,
\* or what the font table gives for v (any byte when v lies outside the table)
DeterminedBy(v) ==
  IF v < 128 THEN {v, IOTTIMERFont[v + 1]} ELSE 0 .. 255

\* C18: Raw with k = 1 .. display_width values and position and length in
\* range: the j-th value determines cell position+j-1 for j <= min(k, length),
\* and every other cell stays as it was
C18_RawValuesDetermineCells ==
  [][RawInRange(last')
       => LET position == last'.in[2]
              n == RawCount(last')
          IN \A c \in Cells :
               IF c >= position /\ c < position + n
               THEN Display'[c] \in DeterminedBy(RawValues(last')[c - position + 1])
               ELSE Display'[c] = Display[c]]_vars

-----------------------------------------------------------------------------
(* IOTTIMERScrollText, under ScrollSpec *)

LeadingPadding == 4

\* the ticks one frame takes
DelayTicks == IF scroll_delay = 0 THEN 1 ELSE scroll_delay

\* the ticks a scroll of one pass still needs: the frames from the cursor to
\* the end of the stored text, one more for the empty window and one for the
\* step that stops, less the ticks already counted towards the next frame
TicksLeft == (Len(scroll_text) + 2 - scroll_index) * DelayTicks - (iteration % DelayTicks)

OnePassStarted == last.fn = "ScrollText" /\ last.ok /\ scroll_counter_max = 1

\* each tick of a scroll of one pass takes one from TicksLeft, and the
\* scroll stops with the tick that takes the last
TicksCountDown ==
  (last'.fn = "Tick50" /\ scroll /\ scroll_counter_max = 1)
    => IF scroll' THEN TicksLeft > 1 /\ TicksLeft' = TicksLeft - 1 ELSE TicksLeft = 1

\* C19 as stated: a scroll of one pass started with text T stops after
\* (width + len(T) + padding) * delay ticks, whatever state it starts from
C19_TicksByWidth ==
  [][/\ TicksCountDown
     /\ OnePassStarted'
          => TicksLeft' = (display_width + (Len(last'.in) - 1) + LeadingPadding)
                            * scroll_delay']_vars

\* C19: a scroll of one pass started with text T and driven by ticks alone
\* stops after (len(T) + padding + 2) * d - r ticks, d being the delay (1 for
\* a delay of 0) and r the ticks the tick divider had counted when the
\* command arrived
C19_TicksToStop ==
  [][/\ TicksCountDown
     /\ OnePassStarted'
          => TicksLeft' = ((Len(last'.in) - 1) + LeadingPadding + 2) * DelayTicks'
                            - (iteration % DelayTicks')]_vars

\* the tick that ended a scroll of one pass of "HELLO"
C19_Witness ==
  /\ last.fn = "Tick50" /\ ~scroll
  /\ scroll_counter_max = 1 /\ scroll_counter = 1
  /\ scroll_text = ScrollStored(HELLO)

-----------------------------------------------------------------------------
(* CmndIOTTIMERScrollDelay, under DelaySpec: last.in is <<ArgC(), payload>> *)

\* C20: the stored scroll delay is always within 0..15, and ScrollDelay
\* without an argument leaves it as it is
C20_DelayInRange ==
  [][/\ scroll_delay' \in 0 .. 15
     /\ (last'.fn = "ScrollDelay" /\ last'.ran /\ last'.in[1] = 0)
          => scroll_delay' = scroll_delay]_vars

-----------------------------------------------------------------------------
(* Xdsp21 while the driver is not initialised *)

\* C21: while init_driver_done is false every display command and every tick
\* leaves the buffer, the scroll state and the clock state as they were,
\* sends nothing to the chip and returns false
C21_UnconfiguredDoesNothing ==
  [][(~init_driver_done /\ last'.fn \in Commands \cup {"Tick50"})
       => /\ UNCHANGED <<Display, scrollVars, clockVars>>
          /\ UNCHANGED <<Device, ctrl>>
          /\ last'.send = NoSend
          /\ ~last'.ok /\ ~last'.ran]_vars

\* a Text command arrived before the driver was initialised
C21_Witness ==
  /\ ~init_driver_done
  /\ last.fn = "Text" /\ ~last.ran /\ ~last.ok
  /\ Display = Blank /\ ~scroll /\ ~show_clock

-----------------------------------------------------------------------------
(* IOTTIMERShowTime, under ClockSpec: last.in of a tick is <<hour, minute, second>> *)

ClockShown == last.fn = "Tick50" /\ last.ran /\ show_clock

\* cell c holds glyph g, with or without the dot bit
Shows(c, g) == Display[c] \in {g, WithDot(g)}

\* C22: the clock shows the hour ((h + 11) mod 12) + 1, which lies in 1..12,
\* in 12-hour mode and the hour h in 24-hour mode; the minute and second
\* digits are those of the time in either mode
C22_ClockHourShown ==
  ClockShown
    => LET h == last.in[1]
           min == last.in[2]
           sec == last.in[3]
           shown == IF clock_24 THEN h ELSE ((h + 11) % 12) + 1
       IN /\ ~clock_24 => shown \in 1 .. 12
          /\ Display[12] = Glyph(shown \div 10) /\ Display[13] = Glyph(shown \div 10)
          /\ Shows(14, Glyph(shown % 10)) /\ Display[15] = Glyph(shown % 10)
          /\ Shows(4, Glyph(min \div 10)) /\ Display[5] = Glyph(min \div 10)
          /\ Display[11] = Glyph(min % 10) /\ Display[1] = Glyph(min % 10)
          /\ Display[6] = Glyph(sec \div 10) /\ Display[7] = Glyph(sec % 10)

\* midnight was shown as 12 in 12-hour mode
C22_Witness ==
  /\ ClockShown /\ ~clock_24
  /\ last.in = <<0, 0, 0>>
  /\ Display[12] = Glyph(1) /\ Display[15] = Glyph(2)

\* the cells IOTTIMERShowTime writes, and the two that carry the colon
ClockCells == {12, 13, 14, 15, 4, 5, 11, 1, 6, 7}
ColonCells == {4, 14}
HasDot(b) == (b \div Pow2(IOTTIMER_DOT_BIT)) % 2 = 1

\* a step in which IOTTIMERShowTime ran
ClockRender == show_clock /\ last'.fn = "Tick50" /\ last'.ran

\* C23: every clock render toggles the colon phase and nothing else changes it,
\* so consecutive renders alternate; the render sets the dot bit of cells 4 and
\* 14 exactly when the phase it found was on, and with the phase off none of
\* the clock cells carries the dot bit
C23_ColonFollowsPhase ==
  [][/\ ClockRender
        => /\ clock_colon_state' = ~clock_colon_state
           /\ \A c \in ColonCells : HasDot(Display'[c]) <=> clock_colon_state
           /\ ~clock_colon_state => \A c \in ClockCells : ~HasDot(Display'[c])
     /\ clock_colon_state' # clock_colon_state => ClockRender]_vars

\* a render with the colon lit that followed one without it
C23_Witness ==
  /\ last.fn = "Tick50" /\ last.ran /\ show_clock
  /\ ~clock_colon_state
  /\ HasDot(Display[4]) /\ HasDot(Display[14])
  /\ \A c \in ClockCells \ ColonCells : ~HasDot(Display[c])

-----------------------------------------------------------------------------
(* the glyph lookup, as Raw reaches it under RawSpec *)

\* the table entry for codes 0..127, the blank pattern for codes 128..255
TableOrBlank(v) == IF v < 128 THEN IOTTIMERFont[v + 1] ELSE 0

\* C24: the glyph lookup is total over the codes 0..255: a code below 128
\* yields its table entry, a code of 128 or more yields the blank pattern 0x00,
\* so every cell a Raw command fills from one of the values it parsed holds
\* that pattern
C24_LookupTotal ==
  (RawInRange(last) /\ RawParsed(last.in[1]))
    => \A j \in 1 .. RawCount(last) :
         Display[last.in[2] + j - 1] = TableOrBlank(RawValues(last)[j])

-----------------------------------------------------------------------------
(* the degrees symbol, under TextSpec *)

\* "22.5^" and "22.5`"
WithCaret == <<50, 50, 46, 53, 94>>
WithBacktick == <<50, 50, 46, 53, 96>>

\* C25: the font table gives '^' (0x5E) and '`' (0x60) the same pattern, so
\* DisplayText of "22.5^" leaves the buffer that DisplayText of "22.5`" with
\* the same position and length leaves
C25_CaretAndBacktickAlike ==
  (TextRan /\ TextArg = WithCaret)
    => /\ IOTTIMERFont[94 + 1] = IOTTIMERFont[96 + 1]
       /\ \E u \in FlashBytes :
            Display = CmndIOTTIMERText(Device, last.fn = "Text", WithBacktick,
                                       last.in[1], last.in[2], u).disp

-----------------------------------------------------------------------------
(* scroller and clock *)

\* C26: in every reachable state at most one of scroll and show_clock is set,
\* so no 50 ms tick runs both the scroll frame and the clock render
C26_ScrollOrClock == ~(scroll /\ show_clock)

-----------------------------------------------------------------------------
(* the calls of TM1640SendDataArray: last.send is <<address, count>> *)

\* C27: every TM1640SendDataArray(address, data, count) the driver issues has
\* address <= 15 and address + count <= 16, whatever position and length a
\* Raw command was given
C27_SendInsideBuffer ==
  last.send # NoSend
    => /\ last.send[1] <= IOTTIMER_DIGITS - 1
       /\ last.send[1] + last.send[2] <= IOTTIMER_DIGITS

-----------------------------------------------------------------------------
(* the reads of scroll_text, under LongScrollSpec *)

\* a tick in which IOTTIMERScrollText copied a window, from cursor scroll_index' - 1
ScrollFramed == scroll /\ scroll' /\ last'.fn = "Tick50" /\ last'.send = FullSend

\* C28: every index scroll_index + i the scroller reads to copy its window is
\* below the CMD_MAX_LEN bytes of scroll_text, for every accepted text, and the
\* cursor never exceeds the length of the stored text plus one
C28_ScrollReadsInside ==
  [][/\ ScrollFramed
          => (scroll_index' - 1) + ScrollWindowReach(scroll_text) < CMD_MAX_LEN
     /\ scroll_index' <= Len(scroll_text') + 1]_vars

\* the part of C28 about the cursor alone
CursorWithinText == scroll_index <= Len(scroll_text) + 1

-----------------------------------------------------------------------------
(* the loop count *)

\* C29: while scrolling with a loop limit the loop count is below the limit;
\* scrolling ends only by a tick at which the cursor has wrapped and the loop
\* count reaches the limit, or by a dispatched command other than ScrollDelay;
\* without a limit no tick ends it
C29_LoopCountBelowLimit ==
  /\ []((scroll /\ scroll_counter_max # 0) => scroll_counter < scroll_counter_max)
  /\ [][(scroll /\ ~scroll')
          => \/ /\ last'.fn = "Tick50"
                /\ scroll_index > Len(scroll_text) /\ scroll_index' = 0
                /\ scroll_counter_max # 0 /\ scroll_counter' = scroll_counter_max
             \/ last'.fn \in Commands \ {"ScrollDelay"}]_vars
  /\ [][(last'.fn = "Tick50" /\ scroll /\ scroll_counter_max = 0) => scroll']_vars

\* a scroll limited to two passes is in its second pass
C29_Witness ==
  /\ scroll /\ last.fn = "Tick50"
  /\ scroll_counter_max = 2 /\ scroll_counter = 1
  /\ scroll_index > 0

-----------------------------------------------------------------------------
(* the two-wire bus, under BusSpec *)

BusFns == {"TM1640SendData", "TM1640SendDataArray", "TM1640SetBrightness"}

\* the eight bits of byte b as the chip is to sample them, bit 0 first
BitsOf(b) == [i \in 1 .. 8 |-> IF (b \div Pow2(i - 1)) % 2 = 1 THEN "high" ELSE "low"]

RECURSIVE BitsOfAll(_)
BitsOfAll(bytes) ==
  IF bytes = <<>> THEN <<>> ELSE BitsOf(Head(bytes)) \o BitsOfAll(Tail(bytes))

\* one frame: a start condition, the bits of the bytes, a stop condition
Frame(bytes) == <<"start">> \o BitsOfAll(bytes) \o <<"stop">>

\* what the chip is to see of the operation r
BusExpected(r) ==
  IF r.fn = "TM1640SendData"
  THEN Frame(<<TM1640_CMD_DATA_FIXED>>)
         \o Frame(<<TM1640_CMD_ADDRESS + r.in[1], r.in[2]>>)
  ELSE IF r.fn = "TM1640SendDataArray"
  THEN Frame(<<TM1640_CMD_DATA_AUTO>>)
         \o Frame(<<TM1640_CMD_ADDRESS + r.in[1]>> \o SubSeq(r.in, 3, Len(r.in)))
  ELSE Frame(<<SetBrightnessCmd(r.in[1])>>)

\* the bits shifted in since the last start condition
RECURSIVE BitsInFrame(_)
BitsInFrame(rx) ==
  IF rx = <<>> \/ rx[Len(rx)] \in {"start", "stop"} THEN 0
  ELSE 1 + BitsInFrame(SubSeq(rx, 1, Len(rx) - 1))

BusIdle(rx) == rx = <<>> \/ rx[Len(rx)] = "stop"

\* C30: in every transport operation the data pin changes while the clock is
\* HIGH only as the start condition that opens a frame, with the bus idle, and
\* as the stop condition that closes it, after a whole number of bytes; within
\* a frame every bit is put on the data pin while the clock is LOW and is
\* followed by exactly one clock pulse, the bits of each byte from the least
\* significant one up, so that the chip sees the frames of the operation and
\* nothing else; and with the operation over both pins are HIGH
C30_BusProtocol ==
  /\ [](last.fn \in BusFns => IsPrefix(Settled(wire_rx), BusExpected(last)))
  /\ []((init_driver_done /\ wire_todo = <<>>)
          => /\ clock_pin = 1 /\ data_pin = 1
             /\ last.fn \in BusFns => wire_rx = BusExpected(last))
  /\ [][(data_pin' # data_pin /\ clock_pin = 1)
          => \/ data_pin' = 0 /\ BusIdle(wire_rx)
             \/ /\ data_pin' = 1
                /\ BitsInFrame(Settled(wire_rx)) > 0
                /\ BitsInFrame(Settled(wire_rx)) % 8 = 0]_vars

\* TM1640SendDataArray has sent the bytes 0x01 and 0x5A to address 3 and is over
C30_Witness ==
  /\ last.fn = "TM1640SendDataArray" /\ last.in = <<3, 2, 1, 90>>
  /\ wire_todo = <<>>
  /\ Len(wire_rx) = 36
  /\ clock_pin = 1 /\ data_pin = 1

====
